---- MODULE Spec2Model ----
(***************************************************************************)
(* The Schedule engine of src/app/schedule.js: a 24-slot table of hours    *)
(* (price, mode, remaining power, occupants) built from the rate           *)
(* intervals, a device list ranked by power * duration, and a greedy       *)
(* placement of every ranked device in the cheapest feasible contiguous    *)
(* window.                                                                 *)
(*                                                                         *)
(* Numbers.  Prices and powers are integers here.  Money is kept scaled by *)
(* 1000: where the code adds price * power / 1000, the model adds          *)
(* price * power, so sums and comparisons of costs are exact.              *)
(* Array.prototype.sort is a stable sort: ECMAScript 2019 requires it, and  *)
(* the engines before it sorted arrays of up to ten elements by insertion, *)
(* which is stable.  The device lists here have fewer than ten devices;    *)
(* the sorts of the 24 hours either use a total order (price then hour,    *)
(* total price then hour, hour) or leave a table that is read by hour      *)
(* only, so that the order among equal hours decides nothing.              *)
(***************************************************************************)
EXTENDS Integers, Sequences, FiniteSets, TLC

(***************************************************************************)
(* Program constants.                                                      *)
(***************************************************************************)
HoursPerDay == 24

NoRatePrice == 999

Hours == 0 .. (HoursPerDay - 1)

Undefined == "undefined"

(***************************************************************************)
(* Bounds of the model and the inputs drawn within them.                   *)
(***************************************************************************)
MaxDevices == 2

MaxQueryTime == 25

MaxPowers == {1, 2}

Shape(power, duration, mode) == [power |-> power, duration |-> duration, mode |-> mode]

\* power, duration and mode of the devices: a single hour, short runs, all the
\* hours of the night and a whole day, more than a day, free and restricted to a
\* mode, half and all of maxPower (or more), footprints that differ and footprints
\* that tie.
DeviceShapes ==
  {Shape(2, 1, Undefined),
   Shape(1, 12, Undefined),
   Shape(2, 4, "night"),
   Shape(1, 10, "night"),
   Shape(2, 6, "night"),
   Shape(1, 6, "day"),
   Shape(2, 8, "day"),
   Shape(1, 24, Undefined),
   Shape(2, 24, Undefined),
   Shape(1, 25, "day")}

RECURSIVE SeqsUpTo(_, _)
SeqsUpTo(S, n) ==
  IF n = 0 THEN {<<>>}
  ELSE LET shorter == SeqsUpTo(S, n - 1)
       IN shorter \cup {Append(s, x) : s \in {t \in shorter : Len(t) = n - 1}, x \in S}

\* A device of the input list: ids are unique, the name goes with the id.
Device(i, shape) ==
  [id |-> i, name |-> <<"name", i>>, power |-> shape.power,
   duration |-> shape.duration, mode |-> shape.mode]

DeviceLists ==
  {[i \in 1 .. Len(shapes) |-> Device(i, shapes[i])] :
     shapes \in SeqsUpTo(DeviceShapes, MaxDevices)}

Rate(from, to, value) == [from |-> from, to |-> to, value |-> value]

\* the rates of the test data, in whole units
sampleRates == <<Rate(7, 10, 6), Rate(10, 17, 5), Rate(21, 23, 5), Rate(23, 7, 2)>>

\* The rate lists: none; the rates of the test data, in whole units; one interval
\* across midnight; overlapping intervals; an interval covering no hour; a rate
\* above 999.
RateLists ==
  {<<>>,
   sampleRates,
   <<Rate(22, 2, 1)>>,
   <<Rate(0, 12, 3), Rate(6, 18, 2), Rate(9, 9, 1)>>,
   <<Rate(20, 4, 1000), Rate(2, 9, 4)>>}

QueryTimes == 0 .. MaxQueryTime

VARIABLES
  devices,              \* this.devices: the input device list
  rates,                \* this.rates: the input rate intervals
  maxPower,             \* this.maxPower
  schedule,             \* this.schedule
  currentPowerForHour,  \* this.currentPowerForHour
  totalMoneySpent,      \* this.totalMoneySpent, scaled by 1000
  deviceMoneySpent,     \* this.deviceMoneySpent: device id -> cost, scaled by 1000
  hoursTable,           \* this.hoursTable: the array of hour records, in array order
  devicesTable,         \* this.devicesTable: the ranked device list
  errors,               \* this.errors: the diagnostics, in order
  startHours,           \* device id -> hour of the startHour scheduleDevice was called with
  pc,                   \* position in the constructor
  cursor,               \* index in devicesTable of the device createSchedule handles next
  call,                 \* the last call of a query method and what it gave
  first                 \* the data the first engine was given and, once a second
                        \* engine is constructed, what the first engine ended with

vars ==
  <<devices, rates, maxPower, schedule, currentPowerForHour, totalMoneySpent,
    deviceMoneySpent, hoursTable, devicesTable, errors, startHours, pc, cursor, call,
    first>>

engineVars ==
  <<schedule, currentPowerForHour, totalMoneySpent, deviceMoneySpent, hoursTable,
    devicesTable, errors, startHours, pc, cursor>>

inputVars == <<devices, rates, maxPower>>

\* The sequence seq as an explicit tuple: TLC keeps [k \in S |-> e] unevaluated
\* and evaluates e again at every application.
toArray(seq) == seq \o <<>>

(***************************************************************************)
(* Array.prototype.sort with a comparator cmp(a, b) < 0, = 0, > 0: the     *)
(* elements in comparator order, equal elements in their order in seq.     *)
(***************************************************************************)
sort(seq, cmp(_, _)) ==
  LET a == toArray(seq)
      indexed == toArray([i \in 1 .. Len(a) |-> [at |-> i, item |-> a[i]]])
      before(x, y) == LET c == cmp(x.item, y.item)
                      IN c < 0 \/ (c = 0 /\ x.at < y.at)
      sorted == SortSeq(indexed, before)
  IN toArray([k \in 1 .. Len(a) |-> sorted[k].item])

reverse(seq) == toArray([k \in 1 .. Len(seq) |-> seq[Len(seq) + 1 - k]])

\* a - b || c - d of the comparators
orElse(x, y) == IF x # 0 THEN x ELSE y

(***************************************************************************)
(* Tariff: mode of an hour, interval membership, rates of an hour.         *)
(***************************************************************************)
Returned(v) == [threw |-> FALSE, value |-> v]

Thrown(v) == [threw |-> TRUE, value |-> v]

getModeForHourLate(time) == IF time <= 7 \/ time >= 21 THEN "night" ELSE "day"

getModeForHour(time) == IF time < 7 \/ time >= 21 THEN "night" ELSE "day"

isTimeIncludesClosed(time, from, to) ==
  IF time > 23 THEN Thrown(FALSE)
  ELSE IF from > to
       THEN IF time >= from \/ (time >= 0 /\ time <= to) THEN Returned(TRUE) ELSE Returned(FALSE)
       ELSE IF time >= from /\ time <= to THEN Returned(TRUE) ELSE Returned(FALSE)

isTimeIncludes(time, from, to) ==
  IF time > 23 THEN Thrown(FALSE)
  ELSE IF from > to
       THEN IF time >= from \/ (time >= 0 /\ time < to) THEN Returned(TRUE) ELSE Returned(FALSE)
       ELSE IF time >= from /\ time < to THEN Returned(TRUE) ELSE Returned(FALSE)

\* filter calls isTimeIncludes on every rate; an error of a call ends the filter
getRatesForHour(hour) ==
  IF \E i \in 1 .. Len(rates) : isTimeIncludes(hour, rates[i].from, rates[i].to).threw
  THEN Thrown(<<>>)
  ELSE Returned(SelectSeq(rates, LAMBDA rate : isTimeIncludes(hour, rate.from, rate.to).value))

\* reduce(function (price, rate) {...}, 999) of createHoursTable
RECURSIVE reducePrice(_, _)
reducePrice(ratesForHour, price) ==
  IF ratesForHour = <<>> THEN price
  ELSE LET rate == Head(ratesForHour)
       IN reducePrice(Tail(ratesForHour), IF rate.value < price THEN rate.value ELSE price)

\* Array.prototype.findIndex((item) => item.hour === hour), 1-based
findIndex(table, hour) == CHOOSE i \in 1 .. Len(table) : table[i].hour = hour

getHourItem(hour) == hoursTable[findIndex(hoursTable, hour)]

byPrice(a, b) == a.price - b.price

byHour(a, b) == a.hour - b.hour

byPriceAndHour(a, b) == orElse(a.price - b.price, a.hour - b.hour)

byFirstPriceAndHour(a, b) == orElse(a.price - b.price, a.hour - b.hour)

byTotalPriceAndHour(a, b) == orElse(a.totalPrice - b.totalPrice, a.hour - b.hour)

byFootprint(a, b) == a.power * a.duration - b.power * b.duration

createHoursTableOneShort ==
  LET pushed == toArray([k \in 1 .. HoursPerDay - 1 |->
                   LET i == k - 1
                   IN [hour |-> i,
                       power |-> maxPower,
                       mode |-> getModeForHour(i),
                       workers |-> <<>>,
                       workers_id |-> <<>>,
                       price |-> reducePrice(getRatesForHour(i).value, NoRatePrice)]])
  IN sort(pushed, byPrice)

createHoursTable ==
  LET pushed == toArray([k \in 1 .. HoursPerDay |->
                   LET i == k - 1
                   IN [hour |-> i,
                       power |-> maxPower,
                       mode |-> getModeForHour(i),
                       workers |-> <<>>,
                       workers_id |-> <<>>,
                       price |-> reducePrice(getRatesForHour(i).value, NoRatePrice)]])
  IN sort(pushed, byPrice)

\* Array.prototype.slice(): a copy, so that sorting it leaves seq as it is
slice(seq) == seq

createDevicesTableInPlace(devs) ==
  LET sorted == reverse(sort(devs, byFootprint))
  IN [devices |-> sorted, devicesTable |-> sorted]

\* The two arrays after createDevicesTable: this.devices and this.devicesTable.
createDevicesTable(devs) ==
  LET copy == slice(devs)
  IN [devices |-> devs, devicesTable |-> reverse(sort(copy, byFootprint))]

(***************************************************************************)
(* Placement: candidate hours, feasible windows, commit.                   *)
(***************************************************************************)
getPotentialHoursAnyPower(device) ==
  LET byMode == IF device.mode # Undefined
                THEN SelectSeq(hoursTable, LAMBDA hour : hour.mode = device.mode)
                ELSE hoursTable
  IN sort(byMode, byPriceAndHour)

getPotentialHours(device) ==
  LET byMode == IF device.mode # Undefined
                THEN SelectSeq(hoursTable, LAMBDA hour : hour.mode = device.mode)
                ELSE hoursTable
      withPower == SelectSeq(byMode, LAMBDA hour : hour.power >= device.power)
  IN sort(withPower, byPriceAndHour)

\* this.getHourItem(h) for every hour h, at index h + 1: the table stays as it is
\* while getReallyAvailableHours runs, so that every hour is looked up once.
hourItems == toArray([k \in 1 .. HoursPerDay |-> getHourItem(k - 1)])

\* seq[lo] + ... + seq[hi], the += of a loop over its iterations, added by halves
RECURSIVE sum(_, _, _)
sum(seq, lo, hi) ==
  IF lo > hi THEN 0
  ELSE IF lo = hi THEN seq[lo]
  ELSE LET mid == (lo + hi) \div 2
       IN sum(seq, lo, mid) + sum(seq, mid + 1, hi)

\* The inner loop of getReallyAvailableHours for the first hour startHoursNum, its
\* iteration i at index i + 1: the hour the device runs on, whether the iteration
\* breaks, and what it adds to hourTotalPrice, which is nothing once an iteration
\* has broken out of the loop.  isHoursAvailable stays true when none breaks.
simulateRun(items, device, startHoursNum, hourTotalPrice) ==
  LET iterations == device.duration - 1
      nextHour == toArray([n \in 1 .. iterations |->
                    LET next == startHoursNum + 1 + (n - 1)
                    IN IF next >= 24 THEN next - 24 ELSE next])
      breaks == toArray([n \in 1 .. iterations |->
                  \/ device.mode # Undefined /\ getModeForHour(nextHour[n]) # device.mode
                  \/ items[nextHour[n] + 1].power < device.power])
      added == toArray([n \in 1 .. iterations |->
                 IF \E m \in 1 .. n : breaks[m] THEN 0
                 ELSE items[nextHour[n] + 1].price * device.power])
  IN [isHoursAvailable |-> \A n \in 1 .. iterations : ~breaks[n],
      hourTotalPrice |-> hourTotalPrice + sum(added, 1, iterations)]

getReallyAvailableHours(availableHours, device) ==
  LET items == hourItems
      run == toArray([k \in 1 .. Len(availableHours) |->
                        simulateRun(items, device, availableHours[k].hour,
                                    availableHours[k].price * device.power)])
      kept == SelectSeq([k \in 1 .. Len(availableHours) |-> k],
                        LAMBDA k : run[k].isHoursAvailable)
      availableContinuousHours ==
        [n \in 1 .. Len(kept) |->
           LET firstHour == availableHours[kept[n]]
           IN [hour |-> firstHour.hour,
               power |-> firstHour.power,
               mode |-> firstHour.mode,
               workers |-> firstHour.workers,
               workers_id |-> firstHour.workers_id,
               price |-> firstHour.price,
               totalPrice |-> run[kept[n]].hourTotalPrice]]
  IN sort(availableContinuousHours, byTotalPriceAndHour)

\* let targetHour = startHour.hour + i, "Handle midnight"
targetHourZeroed(startHour, i) ==
  LET target == startHour.hour + i
  IN IF target >= 24 THEN 0 ELSE target

targetHour(startHour, i) ==
  LET target == startHour.hour + i
  IN IF target >= 24 THEN target - 24 ELSE target

scheduleDeviceCountingDevices(startHour, device) ==
  LET iterations == device.duration
      target == toArray([n \in 1 .. iterations |-> targetHour(startHour, n - 1)])
      visits(hour) == Cardinality({n \in 1 .. iterations : target[n] = hour})
      pushed(x, c) == [j \in 1 .. c |-> x]
      table == toArray([k \in 1 .. Len(hoursTable) |->
                 LET item == hoursTable[k]
                     c == visits(item.hour)
                 IN [item EXCEPT !.power = @ - c,
                                 !.workers = @ \o pushed(device.name, c),
                                 !.workers_id = @ \o pushed(device.id, c)]])
      spent == toArray([n \in 1 .. iterations |->
                 device.power * getHourItem(target[n]).price])
      total == sum(spent, 1, iterations)
      zeroed == IF device.id \in DOMAIN deviceMoneySpent
                THEN deviceMoneySpent
                ELSE deviceMoneySpent @@ (device.id :> 0)
  IN [hoursTable |-> sort(table, byHour),
      totalMoneySpent |-> totalMoneySpent + total,
      deviceMoneySpent |-> IF iterations >= 1
                           THEN [zeroed EXCEPT ![device.id] = @ + total]
                           ELSE deviceMoneySpent]

scheduleDeviceAtStartPrice(startHour, device) ==
  LET iterations == device.duration
      target == toArray([n \in 1 .. iterations |-> targetHour(startHour, n - 1)])
      visits(hour) == Cardinality({n \in 1 .. iterations : target[n] = hour})
      pushed(x, c) == [j \in 1 .. c |-> x]
      table == toArray([k \in 1 .. Len(hoursTable) |->
                 LET item == hoursTable[k]
                     c == visits(item.hour)
                 IN [item EXCEPT !.power = @ - c * device.power,
                                 !.workers = @ \o pushed(device.name, c),
                                 !.workers_id = @ \o pushed(device.id, c)]])
      spent == toArray([n \in 1 .. iterations |->
                 device.power * startHour.price])
      total == sum(spent, 1, iterations)
      zeroed == IF device.id \in DOMAIN deviceMoneySpent
                THEN deviceMoneySpent
                ELSE deviceMoneySpent @@ (device.id :> 0)
  IN [hoursTable |-> sort(table, byHour),
      totalMoneySpent |-> totalMoneySpent + total,
      deviceMoneySpent |-> IF iterations >= 1
                           THEN [zeroed EXCEPT ![device.id] = @ + total]
                           ELSE deviceMoneySpent]

scheduleDeviceUnshifting(startHour, device) ==
  LET iterations == device.duration
      target == toArray([n \in 1 .. iterations |-> targetHour(startHour, n - 1)])
      visits(hour) == Cardinality({n \in 1 .. iterations : target[n] = hour})
      pushed(x, c) == [j \in 1 .. c |-> x]
      table == toArray([k \in 1 .. Len(hoursTable) |->
                 LET item == hoursTable[k]
                     c == visits(item.hour)
                 IN [item EXCEPT !.power = @ - c * device.power,
                                 !.workers = pushed(device.name, c) \o @,
                                 !.workers_id = pushed(device.id, c) \o @]])
      spent == toArray([n \in 1 .. iterations |->
                 device.power * getHourItem(target[n]).price])
      total == sum(spent, 1, iterations)
      zeroed == IF device.id \in DOMAIN deviceMoneySpent
                THEN deviceMoneySpent
                ELSE deviceMoneySpent @@ (device.id :> 0)
  IN [hoursTable |-> sort(table, byHour),
      totalMoneySpent |-> totalMoneySpent + total,
      deviceMoneySpent |-> IF iterations >= 1
                           THEN [zeroed EXCEPT ![device.id] = @ + total]
                           ELSE deviceMoneySpent]

scheduleDeviceZeroedEveryHour(startHour, device) ==
  LET iterations == device.duration
      target == toArray([n \in 1 .. iterations |-> targetHour(startHour, n - 1)])
      visits(hour) == Cardinality({n \in 1 .. iterations : target[n] = hour})
      pushed(x, c) == [j \in 1 .. c |-> x]
      table == toArray([k \in 1 .. Len(hoursTable) |->
                 LET item == hoursTable[k]
                     c == visits(item.hour)
                 IN [item EXCEPT !.power = @ - c * device.power,
                                 !.workers = @ \o pushed(device.name, c),
                                 !.workers_id = @ \o pushed(device.id, c)]])
      spent == toArray([n \in 1 .. iterations |->
                 device.power * getHourItem(target[n]).price])
      total == sum(spent, 1, iterations)
      zeroed == deviceMoneySpent @@ (device.id :> 0)
  IN [hoursTable |-> sort(table, byHour),
      totalMoneySpent |-> totalMoneySpent + total,
      deviceMoneySpent |-> IF iterations >= 1
                           THEN [zeroed EXCEPT ![device.id] = spent[iterations]]
                           ELSE deviceMoneySpent]

\* The fields scheduleDevice writes.  Iteration i of its loop, at index i + 1, is on
\* the hour target[i + 1]: every visit of an hour takes device.power from the
\* slot and pushes the device on its two lists, and adds device.power * price to
\* both sums; deviceMoneySpent[device.id] is set to 0 by the first iteration.
scheduleDevice(startHour, device) ==
  LET iterations == device.duration
      target == toArray([n \in 1 .. iterations |-> targetHour(startHour, n - 1)])
      visits(hour) == Cardinality({n \in 1 .. iterations : target[n] = hour})
      pushed(x, c) == [j \in 1 .. c |-> x]
      table == toArray([k \in 1 .. Len(hoursTable) |->
                 LET item == hoursTable[k]
                     c == visits(item.hour)
                 IN [item EXCEPT !.power = @ - c * device.power,
                                 !.workers = @ \o pushed(device.name, c),
                                 !.workers_id = @ \o pushed(device.id, c)]])
      spent == toArray([n \in 1 .. iterations |->
                 device.power * getHourItem(target[n]).price])
      total == sum(spent, 1, iterations)
      zeroed == IF device.id \in DOMAIN deviceMoneySpent
                THEN deviceMoneySpent
                ELSE deviceMoneySpent @@ (device.id :> 0)
  IN [hoursTable |-> sort(table, byHour),
      totalMoneySpent |-> totalMoneySpent + total,
      deviceMoneySpent |-> IF iterations >= 1
                           THEN [zeroed EXCEPT ![device.id] = @ + total]
                           ELSE deviceMoneySpent]

(***************************************************************************)
(* The diagnostics.                                                        *)
(***************************************************************************)
NoMoreSpace == "No more space available for "

NotEnoughHours == "Not enough available hours for "

NotEnoughContinuousHours == "Not enough available continuous hours for "

Error(message, device) == [message |-> message, name |-> device.name]

(***************************************************************************)
(* The constructor, step by step.                                          *)
(***************************************************************************)
NoCall == [op |-> "none"]

Init ==
  /\ devices \in DeviceLists
  /\ rates \in RateLists
  /\ maxPower \in MaxPowers
  /\ schedule = [s \in Hours |-> <<>>]
  /\ currentPowerForHour = [c \in Hours |-> maxPower]
  /\ totalMoneySpent = 0
  /\ deviceMoneySpent = <<>>
  /\ hoursTable = <<>>
  /\ devicesTable = <<>>
  /\ errors = <<>>
  /\ startHours = <<>>
  /\ pc = "createHoursTable"
  /\ cursor = 1
  /\ call = NoCall
  /\ first = [made |-> FALSE, devices |-> devices]

CreateHoursTable ==
  /\ pc = "createHoursTable"
  /\ hoursTable' = createHoursTable
  /\ pc' = "createDevicesTable"
  /\ UNCHANGED <<inputVars, schedule, currentPowerForHour, totalMoneySpent,
                 deviceMoneySpent, devicesTable, errors, startHours, cursor, call, first>>

CreateDevicesTable ==
  /\ pc = "createDevicesTable"
  /\ LET made == createDevicesTable(devices)
     IN /\ devices' = made.devices
        /\ devicesTable' = made.devicesTable
  /\ pc' = "createSchedule"
  /\ UNCHANGED <<rates, maxPower, schedule, currentPowerForHour, totalMoneySpent,
                 deviceMoneySpent, hoursTable, errors, startHours, cursor, call, first>>

RejectAfterZeroing(message, device) ==
  /\ errors' = Append(errors, Error(message, device))
  /\ cursor' = cursor + 1
  /\ deviceMoneySpent' = IF device.id \in DOMAIN deviceMoneySpent THEN deviceMoneySpent
                         ELSE deviceMoneySpent @@ (device.id :> 0)
  /\ UNCHANGED <<hoursTable, totalMoneySpent, startHours>>

RejectAndBreak(message, device) ==
  /\ errors' = Append(errors, Error(message, device))
  /\ cursor' = Len(devicesTable) + 1
  /\ UNCHANGED <<hoursTable, totalMoneySpent, deviceMoneySpent, startHours>>

\* errors.push(message + device.name); continue
Reject(message, device) ==
  /\ errors' = Append(errors, Error(message, device))
  /\ cursor' = cursor + 1
  /\ UNCHANGED <<hoursTable, totalMoneySpent, deviceMoneySpent, startHours>>

\* scheduleDevice(startHour, device), the last statement of the loop body
Place(startHour, device) ==
  LET st == scheduleDevice(startHour, device)
  IN /\ hoursTable' = st.hoursTable
     /\ totalMoneySpent' = st.totalMoneySpent
     /\ deviceMoneySpent' = st.deviceMoneySpent
     /\ startHours' = startHours @@ (device.id :> startHour.hour)
     /\ cursor' = cursor + 1
     /\ UNCHANGED errors

CreateScheduleWithRoomToSpare ==
  /\ pc = "createSchedule"
  /\ cursor <= Len(devicesTable)
  /\ LET device == devicesTable[cursor]
         availableHours == getPotentialHours(device)
         availableContinuousHours == getReallyAvailableHours(availableHours, device)
     IN IF Len(availableHours) = 0 THEN Reject(NoMoreSpace, device)
        ELSE IF Len(availableHours) <= device.duration THEN Reject(NotEnoughHours, device)
        ELSE IF Len(availableContinuousHours) = 0
             THEN Reject(NotEnoughContinuousHours, device)
        ELSE \E startHour \in {Head(availableContinuousHours)} : Place(startHour, device)
  /\ UNCHANGED <<inputVars, schedule, currentPowerForHour, devicesTable, pc, call, first>>

CreateScheduleUncounted ==
  /\ pc = "createSchedule"
  /\ cursor <= Len(devicesTable)
  /\ LET device == devicesTable[cursor]
         availableHours == getPotentialHours(device)
         availableContinuousHours == getReallyAvailableHours(availableHours, device)
     IN IF Len(availableHours) = 0 THEN Reject(NoMoreSpace, device)
        ELSE IF Len(availableContinuousHours) = 0
             THEN Reject(NotEnoughContinuousHours, device)
        ELSE \E startHour \in {Head(availableContinuousHours)} : Place(startHour, device)
  /\ UNCHANGED <<inputVars, schedule, currentPowerForHour, devicesTable, pc, call, first>>

\* One iteration of the loop of createSchedule.
CreateSchedule ==
  /\ pc = "createSchedule"
  /\ cursor <= Len(devicesTable)
  /\ LET device == devicesTable[cursor]
         availableHours == getPotentialHours(device)
         availableContinuousHours == getReallyAvailableHours(availableHours, device)
     IN IF Len(availableHours) = 0 THEN Reject(NoMoreSpace, device)
        ELSE IF Len(availableHours) < device.duration THEN Reject(NotEnoughHours, device)
        ELSE IF Len(availableContinuousHours) = 0
             THEN Reject(NotEnoughContinuousHours, device)
        ELSE \E startHour \in {Head(availableContinuousHours)} : Place(startHour, device)
  /\ UNCHANGED <<inputVars, schedule, currentPowerForHour, devicesTable, pc, call, first>>

\* The constructor has returned.
Done == pc = "createSchedule" /\ cursor > Len(devicesTable)

(***************************************************************************)
(* The result, read from a constructed engine.                             *)
(***************************************************************************)
\* +x.toFixed(digits) of an amount kept in thousandths: the amount in units of
\* 10^-digits, rounded to a whole number of them, in thousandths again.
toFixed(x, digits) ==
  LET units == 10 ^ (digits - 3)
  IN ((2 * x * units + 1) \div 2) \div units

getScheduleOfAllDevices ==
  [schedule |-> [h \in {hoursTable[k].hour : k \in 1 .. Len(hoursTable)} |->
                   hoursTable[findIndex(hoursTable, h)].workers_id],
   consumedEnergy |->
     [value |-> toFixed(totalMoneySpent, 3),
      devices |-> [id \in {devices[i].id : i \in 1 .. Len(devices)} |->
                     IF id \in DOMAIN deviceMoneySpent
                     THEN toFixed(deviceMoneySpent[id], 4) ELSE 0]],
   devices |-> [id \in {devices[i].id : i \in 1 .. Len(devices)} |->
                  devices[CHOOSE i \in 1 .. Len(devices) : devices[i].id = id].name]]

\* The object getSchedule returns; with ids that differ, the last device of an id
\* is the only one.
getSchedule ==
  [schedule |-> [h \in {hoursTable[k].hour : k \in 1 .. Len(hoursTable)} |->
                   hoursTable[findIndex(hoursTable, h)].workers_id],
   consumedEnergy |->
     [value |-> toFixed(totalMoneySpent, 3),
      devices |-> [id \in DOMAIN deviceMoneySpent |-> toFixed(deviceMoneySpent[id], 4)]],
   devices |-> [id \in {devices[i].id : i \in 1 .. Len(devices)} |->
                  devices[CHOOSE i \in 1 .. Len(devices) : devices[i].id = id].name]]

GetSchedule ==
  /\ Done
  /\ call = NoCall
  /\ call' = [op |-> "getSchedule", ret |-> getSchedule]
  /\ UNCHANGED <<inputVars, engineVars, first>>

Next == CreateHoursTable \/ CreateDevicesTable \/ CreateSchedule \/ GetSchedule

Spec == Init /\ [][Next]_vars

(***************************************************************************)
(* Calls of the tariff methods on a constructed engine without devices.    *)
(***************************************************************************)
IsTimeIncludes ==
  /\ Done
  /\ call = NoCall
  /\ \E time \in QueryTimes, from \in Hours, to \in Hours :
       call' = [op |-> "isTimeIncludes", time |-> time, from |-> from, to |-> to,
                ret |-> isTimeIncludes(time, from, to)]
  /\ UNCHANGED <<inputVars, engineVars, first>>

GetRatesForHour ==
  /\ Done
  /\ call = NoCall
  /\ \E hour \in QueryTimes :
       call' = [op |-> "getRatesForHour", hour |-> hour, ret |-> getRatesForHour(hour)]
  /\ UNCHANGED <<inputVars, engineVars, first>>

InitQuery == Init /\ devices = <<>>

NextQuery == CreateHoursTable \/ CreateDevicesTable \/ IsTimeIncludes \/ GetRatesForHour

SpecQuery == InitQuery /\ [][NextQuery]_vars

(***************************************************************************)
(* A second engine: new Schedule(data) once more, on the data object as    *)
(* the first engine has left it, or on that data without one of its        *)
(* devices.  What the first engine ended with is kept in first.            *)
(***************************************************************************)
remove(seq, i) == toArray([k \in 1 .. Len(seq) - 1 |-> IF k < i THEN seq[k] ELSE seq[k + 1]])

Construct(devs) ==
  /\ Done
  /\ call = NoCall
  /\ ~first.made
  /\ first' = [made |-> TRUE,
               devices |-> first.devices,
               hoursTable |-> hoursTable,
               totalMoneySpent |-> totalMoneySpent,
               deviceMoneySpent |-> deviceMoneySpent,
               errors |-> errors]
  /\ devices' = devs
  /\ schedule' = [s \in Hours |-> <<>>]
  /\ currentPowerForHour' = [c \in Hours |-> maxPower]
  /\ totalMoneySpent' = 0
  /\ deviceMoneySpent' = <<>>
  /\ hoursTable' = <<>>
  /\ devicesTable' = <<>>
  /\ errors' = <<>>
  /\ startHours' = <<>>
  /\ pc' = "createHoursTable"
  /\ cursor' = 1
  /\ UNCHANGED <<rates, maxPower, call>>

ConstructAgain == Construct(devices)

ConstructWithout ==
  \E i \in 1 .. Len(devices) :
    /\ devices[i].power > maxPower
    /\ Construct(remove(devices, i))

InitAgain == Init /\ rates \in {<<>>, sampleRates}

NextAgain == CreateHoursTable \/ CreateDevicesTable \/ CreateSchedule \/ ConstructAgain

SpecAgain == InitAgain /\ [][NextAgain]_vars

InitWithout == Init /\ \E i \in 1 .. Len(devices) : devices[i].power > maxPower

NextWithout == CreateHoursTable \/ CreateDevicesTable \/ CreateSchedule \/ ConstructWithout

SpecWithout == InitWithout /\ [][NextWithout]_vars

(***************************************************************************)
(* The single-pass variant of the engine (src/unnamed/part_001): the same  *)
(* fields, initial values, createHoursTable and getHourItem; another       *)
(* ranking comparator, and a createSchedule that searches and commits in   *)
(* one loop.                                                               *)
(***************************************************************************)
sign(x) == IF x < 0 THEN -1 ELSE IF x > 0 THEN 1 ELSE 0

\* the comparator of the variant's createDevicesTable
byFootprintUnless24(a, b) ==
  IF a.duration = 24 THEN -1 ELSE a.power * a.duration - b.power * b.duration

\* Is the comparator a consistent one on the devices?  Array.prototype.sort leaves
\* the order to the engine when it is not.
isConsistent(devs) ==
  /\ \A i, j \in 1 .. Len(devs) :
       i # j => sign(byFootprintUnless24(devs[i], devs[j]))
                  = - sign(byFootprintUnless24(devs[j], devs[i]))
  /\ \A i, j, k \in 1 .. Len(devs) :
       (/\ byFootprintUnless24(devs[i], devs[j]) <= 0
        /\ byFootprintUnless24(devs[j], devs[k]) <= 0)
       => byFootprintUnless24(devs[i], devs[k]) <= 0

permutations(seq) ==
  {[k \in 1 .. Len(seq) |-> seq[p[k]]] :
     p \in {q \in [1 .. Len(seq) -> 1 .. Len(seq)] :
              \A i, j \in 1 .. Len(seq) : q[i] = q[j] => i = j}}

\* The arrays this.devicesTable may be after the variant's createDevicesTable.
createDevicesTableSinglePass(devs) ==
  IF isConsistent(devs)
  THEN {reverse(sort(slice(devs), byFootprintUnless24))}
  ELSE permutations(devs)

\* let targetHour = firstHour.hour + i, "Handle midnight"
targetHourSinglePass(firstHour, i) ==
  LET target == firstHour.hour + i
  IN IF target = 24 THEN 0 ELSE target

\* The innermost loop of the variant's createSchedule.  An iteration whose
\* targetHour is not an hour of the table throws at getHourItem(targetHour).power,
\* after the iterations before it have written.
commitSinglePass(firstHour, device) ==
  LET thrown == \E i \in 0 .. device.duration - 1 :
                  targetHourSinglePass(firstHour, i) \notin Hours
      iterations == Cardinality({n \in 1 .. device.duration :
                                   \A i \in 0 .. n - 1 :
                                     targetHourSinglePass(firstHour, i) \in Hours})
      target == toArray([n \in 1 .. iterations |-> targetHourSinglePass(firstHour, n - 1)])
      visits(hour) == Cardinality({n \in 1 .. iterations : target[n] = hour})
      pushed(x, c) == [j \in 1 .. c |-> x]
      table == toArray([k \in 1 .. Len(hoursTable) |->
                          LET item == hoursTable[k]
                              c == visits(item.hour)
                          IN [item EXCEPT !.power = @ - c * device.power,
                                          !.workers = @ \o pushed(device.name, c),
                                          !.workers_id = @ \o pushed(device.id, c)]])
      spent == toArray([n \in 1 .. iterations |->
                          device.power * getHourItem(target[n]).price])
      total == sum(spent, 1, iterations)
      zeroed == IF device.id \in DOMAIN deviceMoneySpent THEN deviceMoneySpent
                ELSE deviceMoneySpent @@ (device.id :> 0)
  IN [thrown |-> thrown,
      hoursTable |-> table,
      totalMoneySpent |-> totalMoneySpent + total,
      deviceMoneySpent |-> IF iterations >= 1 THEN [zeroed EXCEPT ![device.id] = @ + total]
                           ELSE deviceMoneySpent]

NotEnoughContinuouslyHours == "Not enough continuously available hours for "

CreateDevicesTableSinglePass ==
  /\ pc = "createDevicesTable"
  /\ devicesTable' \in createDevicesTableSinglePass(devices)
  /\ pc' = "createSchedule"
  /\ UNCHANGED <<inputVars, schedule, currentPowerForHour, totalMoneySpent,
                 deviceMoneySpent, hoursTable, errors, startHours, cursor, call, first>>

\* the loop over availableHours and the sort that follows it
PlaceSinglePass(availableHours, device) ==
  LET cHours == SubSeq(availableHours, 1, device.duration)
  IN IF Len(cHours) < device.duration
     THEN /\ errors' = Append(errors, Error(NotEnoughContinuouslyHours, device))
          /\ hoursTable' = sort(hoursTable, byHour)
          /\ cursor' = cursor + 1
          /\ UNCHANGED <<totalMoneySpent, deviceMoneySpent, startHours, pc>>
     ELSE IF \E n \in 1 .. Len(cHours) : cHours[n].power < device.power
     THEN /\ hoursTable' = sort(hoursTable, byHour)
          /\ cursor' = cursor + 1
          /\ UNCHANGED <<errors, totalMoneySpent, deviceMoneySpent, startHours, pc>>
     ELSE \E firstHour \in {Head(availableHours)} :
            \E st \in {commitSinglePass(firstHour, device)} :
              /\ hoursTable' = IF st.thrown THEN st.hoursTable
                               ELSE sort(st.hoursTable, byHour)
              /\ totalMoneySpent' = st.totalMoneySpent
              /\ deviceMoneySpent' = st.deviceMoneySpent
              /\ startHours' = startHours @@ (device.id :> firstHour.hour)
              /\ cursor' = IF st.thrown THEN cursor ELSE cursor + 1
              /\ pc' = IF st.thrown THEN "thrown" ELSE pc
              /\ UNCHANGED errors

\* One iteration of the loop over devicesTable in the variant's createSchedule.
CreateScheduleSinglePass ==
  /\ pc = "createSchedule"
  /\ cursor <= Len(devicesTable)
  /\ LET device == devicesTable[cursor]
         availableHours == getPotentialHours(device)
     IN IF Len(availableHours) = 0 THEN Reject(NoMoreSpace, device) /\ UNCHANGED pc
        ELSE IF Len(availableHours) < device.duration
             THEN Reject(NotEnoughHours, device) /\ UNCHANGED pc
        ELSE PlaceSinglePass(availableHours, device)
  /\ UNCHANGED <<inputVars, schedule, currentPowerForHour, devicesTable, call, first>>

NextSinglePass == CreateHoursTable \/ CreateDevicesTableSinglePass \/ CreateScheduleSinglePass

SpecSinglePass == Init /\ [][NextSinglePass]_vars

(***************************************************************************)
(* What the properties speak of.                                           *)
(***************************************************************************)
TableBuilt == pc # "createHoursTable"

Ranked == pc = "createSchedule"

Ids == 1 .. Len(devices)

Footprint(device) == device.power * device.duration

Range(seq) == {seq[k] : k \in 1 .. Len(seq)}

\* the slots of a table by hour: the slot of hour h at index h + 1, wherever it
\* stands in the table
Slots(table) ==
  toArray([n \in 1 .. HoursPerDay |->
             table[CHOOSE k \in 1 .. Len(table) : table[k].hour = n - 1]])

Times(seq, x) == Cardinality({k \in 1 .. Len(seq) : seq[k] = x})

\* the hours whose occupant list has the device
Occupied(slots, id) == {h \in Hours : id \in Range(slots[h + 1].workers_id)}

Window(s, d) == {(s + j) % HoursPerDay : j \in 0 .. d - 1}

NightHour(h) == h < 7 \/ h >= 21

ModeAllows(device, h) ==
  \/ device.mode = Undefined
  \/ device.mode = "night" /\ NightHour(h)
  \/ device.mode = "day" /\ ~NightHour(h)

ErrorsFor(name) == {k \in 1 .. Len(errors) : errors[k].name = name}

\* the devices createSchedule has handled so far
Handled == {devicesTable[k].id : k \in 1 .. cursor - 1}

Diagnostics == {NoMoreSpace, NotEnoughHours, NotEnoughContinuousHours}

DeviceOf(id) == CHOOSE device \in Range(devices) : device.id = id

FeasibleAt(slots, device, s) ==
  \A h \in Window(s, device.duration) :
    ModeAllows(device, h) /\ slots[h + 1].power >= device.power

\* the cost, scaled by 1000, of the hours s + j, ..., s + d - 1 of the window at s
RECURSIVE CostFrom(_, _, _, _)
CostFrom(slots, device, s, j) ==
  IF j >= device.duration THEN 0
  ELSE slots[((s + j) % HoursPerDay) + 1].price * device.power
       + CostFrom(slots, device, s, j + 1)

WindowCost(slots, device, s) == CostFrom(slots, device, s, 0)

\* the step of createSchedule that commits the device under the cursor
Commits ==
  /\ pc = "createSchedule"
  /\ cursor <= Len(devicesTable)
  /\ cursor' = cursor + 1
  /\ errors' = errors

(***************************************************************************)
(* C1: once the table is built, and after every device handled, each of    *)
(* the 24 slots has remaining power r with 0 <= r <= maxPower.             *)
(***************************************************************************)
RemainingPowerWithinBudget ==
  TableBuilt =>
    \A k \in 1 .. Len(hoursTable) :
      0 <= hoursTable[k].power /\ hoursTable[k].power <= maxPower

\* The run has ended with a slot used up to the last watt and a device that fits
\* an empty slot turned away.
FullSlotAndDeviceTurnedAway ==
  /\ Done
  /\ \E k \in 1 .. Len(hoursTable) : hoursTable[k].power = 0
  /\ \E id \in Ids :
       /\ Occupied(Slots(hoursTable), id) = {}
       /\ DeviceOf(id).power <= maxPower
       /\ DeviceOf(id).duration <= HoursPerDay
       /\ ErrorsFor(DeviceOf(id).name) # {}

(***************************************************************************)
(* C2: the mode of hour h is night for h < 7 or h >= 21 and day for        *)
(* 7 <= h < 21; every hour occupied by a night device is a night hour and  *)
(* every hour occupied by a day device is a day hour.                      *)
(***************************************************************************)
ModesRespected ==
  TableBuilt =>
    LET slots == Slots(hoursTable)
    IN \A h \in Hours :
         /\ getModeForHour(h) = (IF NightHour(h) THEN "night" ELSE "day")
         /\ slots[h + 1].mode = (IF NightHour(h) THEN "night" ELSE "day")
         /\ \A id \in Range(slots[h + 1].workers_id) : ModeAllows(DeviceOf(id), h)

\* A night device runs across midnight and a day device is placed too.
NightAndDayDevicesPlaced ==
  /\ Done
  /\ \E id \in Ids :
       DeviceOf(id).mode = "night" /\ {23, 0} \subseteq Occupied(Slots(hoursTable), id)
  /\ \E id \in Ids :
       DeviceOf(id).mode = "day" /\ Occupied(Slots(hoursTable), id) # {}

(***************************************************************************)
(* C3: the hours of a placed device with duration d in 1..24 are one run   *)
(* s, s+1, ..., s+d-1 modulo 24 of d distinct hours, and the device is     *)
(* once in the occupant list of each.                                      *)
(***************************************************************************)
ContiguousRun ==
  TableBuilt =>
    LET slots == Slots(hoursTable)
    IN \A id \in Ids :
         LET d == DeviceOf(id).duration
             hours == Occupied(slots, id)
         IN (hours # {} /\ d \in 1 .. HoursPerDay) =>
              /\ \E s \in Hours : hours = Window(s, d)
              /\ Cardinality(hours) = d
              /\ \A h \in hours : Times(slots[h + 1].workers_id, id) = 1

\* A device of less than a day runs over midnight.
RunOverMidnight ==
  /\ TableBuilt
  /\ \E id \in Ids :
       /\ {23, 0} \subseteq Occupied(Slots(hoursTable), id)
       /\ DeviceOf(id).duration < HoursPerDay
       /\ Cardinality(Occupied(Slots(hoursTable), id)) = DeviceOf(id).duration

(***************************************************************************)
(* C4: a committed device gets the window at the start hour s it was       *)
(* scheduled from; that window is feasible in the table before the commit, *)
(* no feasible window costs less, and no feasible window of the same cost  *)
(* starts earlier.                                                         *)
(***************************************************************************)
CheapestFeasibleWindow ==
  [][Commits =>
       LET device == devicesTable[cursor]
           s == startHours'[device.id]
           slots == Slots(hoursTable)
           cost == toArray([n \in 1 .. HoursPerDay |-> WindowCost(slots, device, n - 1)])
       IN /\ Occupied(Slots(hoursTable'), device.id) = Window(s, device.duration)
          /\ FeasibleAt(slots, device, s)
          /\ \A t \in Hours :
               FeasibleAt(slots, device, t) =>
                 \/ cost[s + 1] < cost[t + 1]
                 \/ cost[s + 1] = cost[t + 1] /\ s <= t]_vars

\* The first device may run at any hour of the empty table and starts after hour 0,
\* and a window of the same length at another hour costs more.
StartChosenOnCost ==
  /\ Ranked
  /\ cursor = 2
  /\ LET device == devicesTable[1]
         slots == Slots(createHoursTable)
     IN /\ device.mode = Undefined
        /\ device.duration < HoursPerDay
        /\ device.id \in DOMAIN startHours
        /\ startHours[device.id] > 0
        /\ \E t \in Hours :
             WindowCost(slots, device, t) > WindowCost(slots, device, startHours[device.id])

(***************************************************************************)
(* C5: every device handled is placed without a diagnostic, or occupies no *)
(* hour and has exactly one diagnostic of the three kinds; a device not    *)
(* yet handled has neither; there are as many diagnostics as unplaced      *)
(* devices handled, and when the run ends every device has been handled.   *)
(***************************************************************************)
PlacedOrDiagnosedOnce ==
  Ranked =>
    LET slots == Slots(hoursTable)
        placed == {id \in Ids : Occupied(slots, id) # {}}
    IN /\ \A id \in Handled :
            LET mine == ErrorsFor(DeviceOf(id).name)
            IN \/ id \in placed /\ mine = {}
               \/ /\ id \notin placed
                  /\ Cardinality(mine) = 1
                  /\ \A k \in mine : errors[k].message \in Diagnostics
       /\ \A id \in Ids \ Handled : id \notin placed /\ ErrorsFor(DeviceOf(id).name) = {}
       /\ Len(errors) = Cardinality(Handled \ placed)
       /\ Done => Handled = Ids

\* The device ranked first was turned away and the device ranked after it placed.
PlacedAfterAFailure ==
  /\ Done
  /\ Len(devicesTable) >= 2
  /\ Occupied(Slots(hoursTable), devicesTable[1].id) = {}
  /\ ErrorsFor(devicesTable[1].name) # {}
  /\ Occupied(Slots(hoursTable), devicesTable[2].id) # {}

\* the place of the device in the ranked list
Rank(id) == CHOOSE k \in 1 .. Len(devicesTable) : devicesTable[k].id = id

\* does the interval from..to of a rate cover the hour?
Covers(time, from, to) ==
  \/ from > to /\ (time >= from \/ time < to)
  \/ from <= to /\ from <= time /\ time < to

Covering(h) == {k \in 1 .. Len(rates) : Covers(h, rates[k].from, rates[k].to)}

Least(S) == CHOOSE x \in S : \A y \in S : x <= y

(***************************************************************************)
(* C6: of two devices with the same power * duration the one earlier in    *)
(* the input list is ranked, and so handled, first.                        *)
(***************************************************************************)
EqualFootprintsInInputOrder ==
  Ranked =>
    \A a, b \in Ids :
      (a < b /\ Footprint(DeviceOf(a)) = Footprint(DeviceOf(b))) => Rank(a) < Rank(b)

(***************************************************************************)
(* C7: the ranked list has the devices of the input list, each once, with  *)
(* power * duration never increasing; the devices with an outcome are the  *)
(* ones before the cursor; the input list is in the order it came in.      *)
(***************************************************************************)
RankedPermutation ==
  Ranked =>
    LET slots == Slots(hoursTable)
    IN /\ Len(devicesTable) = Len(devices)
       /\ \A i \in Ids : Times(devicesTable, devices[i]) = 1
       /\ \A k \in 1 .. Len(devicesTable) - 1 :
            Footprint(devicesTable[k]) >= Footprint(devicesTable[k + 1])
       /\ \A i \in Ids : devices[i].id = i
       /\ {devices[i].id : i \in {j \in Ids : \/ Occupied(slots, devices[j].id) # {}
                                              \/ ErrorsFor(devices[j].name) # {}}}
            = Handled

\* The ranking changed the order, and one of two devices has been handled.
Reordered ==
  /\ Ranked
  /\ Len(devices) = 2
  /\ devicesTable # devices
  /\ Footprint(devicesTable[1]) > Footprint(devicesTable[2])
  /\ cursor = 2

(***************************************************************************)
(* C8, as claimed: the price of an hour covered by a rate is the least     *)
(* value of the rates that cover it, and 999 for an hour no rate covers.   *)
(***************************************************************************)
PriceIsLeastCoveringRate ==
  TableBuilt =>
    LET slots == Slots(hoursTable)
    IN \A h \in Hours :
         slots[h + 1].price = IF Covering(h) # {}
                              THEN Least({rates[k].value : k \in Covering(h)})
                              ELSE NoRatePrice

(***************************************************************************)
(* C9: isTimeIncludes(time, from, to) for time, from, to in 0..23 is true  *)
(* exactly when the interval, from included and to excluded, around        *)
(* midnight when from > to, covers time; for time > 23 it throws;          *)
(* getRatesForHour(h) for h in 0..23 gives the rates covering h in their   *)
(* input order.                                                            *)
(***************************************************************************)
TariffQueries ==
  /\ call.op = "isTimeIncludes" =>
       IF call.time > 23 THEN call.ret.threw
       ELSE /\ ~call.ret.threw
            /\ call.ret.value = Covers(call.time, call.from, call.to)
            /\ call.from = call.to => ~call.ret.value
  /\ (call.op = "getRatesForHour" /\ call.hour <= 23) =>
       /\ ~call.ret.threw
       /\ call.ret.value = SelectSeq(rates, LAMBDA rate : Covers(call.hour, rate.from, rate.to))

\* An hour after midnight was found in an interval that begins before midnight.
IncludedAfterMidnight ==
  /\ call.op = "isTimeIncludes"
  /\ call.from > call.to
  /\ call.time < call.to
  /\ ~call.ret.threw
  /\ call.ret.value

(***************************************************************************)
(* C10, as claimed: a device with a duration above 24 is not placed and    *)
(* has exactly one diagnostic, "Not enough available hours".               *)
(***************************************************************************)
LongDeviceNotEnoughHours ==
  Ranked =>
    LET slots == Slots(hoursTable)
    IN \A id \in Handled :
         DeviceOf(id).duration > HoursPerDay =>
           /\ Occupied(slots, id) = {}
           /\ Cardinality(ErrorsFor(DeviceOf(id).name)) = 1
           /\ \A k \in ErrorsFor(DeviceOf(id).name) : errors[k].message = NotEnoughHours

(***************************************************************************)
(* C10, amended: a device with a duration above 24 is not placed and has   *)
(* exactly one diagnostic: "Not enough available hours" when, as it is     *)
(* handled, some hour of its mode has remaining power >= its power, and    *)
(* "No more space available" when none has.  (The table right after the    *)
(* device is handled is the table it was handled in.)                      *)
(***************************************************************************)
LongDeviceDiagnosedOnce ==
  Ranked =>
    LET slots == Slots(hoursTable)
    IN \A id \in Handled :
         LET device == DeviceOf(id)
             mine == ErrorsFor(device.name)
         IN device.duration > HoursPerDay =>
              /\ Occupied(slots, id) = {}
              /\ Cardinality(mine) = 1
              /\ \A k \in mine : errors[k].message \in {NotEnoughHours, NoMoreSpace}
              /\ devicesTable[cursor - 1].id = id =>
                   errors[Len(errors)] =
                     Error(IF \E h \in Hours : /\ ModeAllows(device, h)
                                               /\ slots[h + 1].power >= device.power
                           THEN NotEnoughHours ELSE NoMoreSpace,
                           device)

\* A device with a duration above 24 and a power within maxPower was handled
\* after a placed device and found no hour with power left.
LongDeviceAfterPlacement ==
  /\ Ranked
  /\ cursor = 3
  /\ Occupied(Slots(hoursTable), devicesTable[1].id) # {}
  /\ devicesTable[2].duration > HoursPerDay
  /\ devicesTable[2].power <= maxPower
  /\ errors = <<Error(NoMoreSpace, devicesTable[2])>>

\* the number of hours of a mode
ModeHours(mode) == Cardinality({h \in Hours : NightHour(h) <=> mode = "night"})

\* Two devices of one mode that cannot share an hour, each within maxPower and
\* within the hours of the mode, and together longer than the hours of the mode.
SameModePair ==
  /\ Len(devices) = 2
  /\ devices[1].mode \in {"night", "day"}
  /\ devices[1].mode = devices[2].mode
  /\ \A i \in 1 .. 2 :
       /\ devices[i].power <= maxPower
       /\ devices[i].duration \in 1 .. ModeHours(devices[i].mode)
  /\ devices[1].power + devices[2].power > maxPower
  /\ devices[1].duration + devices[2].duration > ModeHours(devices[1].mode)

(***************************************************************************)
(* C11, as claimed: two devices of one mode that cannot share an hour and  *)
(* are together longer than the hours of the mode give exactly one         *)
(* diagnostic, "Not enough available continuous hours", for the device     *)
(* ranked second.                                                          *)
(***************************************************************************)
SameModePairNoContinuousHours ==
  (Done /\ SameModePair) =>
    errors = <<Error(NotEnoughContinuousHours, devicesTable[2])>>

(***************************************************************************)
(* C11, amended: such a pair gives exactly one diagnostic, for the device  *)
(* ranked second, and the device ranked first is placed; the diagnostic is *)
(* "Not enough available hours" when the device ranked first is shorter    *)
(* than the hours of the mode and "No more space available" when it takes  *)
(* them all.                                                               *)
(***************************************************************************)
SameModePairSecondTurnedAway ==
  (Done /\ SameModePair) =>
    /\ Cardinality(Occupied(Slots(hoursTable), devicesTable[1].id)) = devicesTable[1].duration
    /\ Occupied(Slots(hoursTable), devicesTable[2].id) = {}
    /\ errors =
         <<Error(IF devicesTable[1].duration < ModeHours(devicesTable[1].mode)
                 THEN NotEnoughHours ELSE NoMoreSpace,
                 devicesTable[2])>>

\* A pair of day devices has run: the second found hours left, but too few.
SameModePairOfDayDevices ==
  /\ Done
  /\ SameModePair
  /\ devices[1].mode = "day"
  /\ errors = <<Error(NotEnoughHours, devicesTable[2])>>

(***************************************************************************)
(* C12: a device with power above maxPower has exactly one diagnostic,     *)
(* "No more space available", and occupies no hour; and every other device *)
(* is placed on the same hours, or turned away with the same diagnostic,   *)
(* as by an engine given the same data without that device.                *)
(***************************************************************************)
OverpoweredDeviceTurnedAway ==
  Ranked =>
    LET slots == Slots(hoursTable)
    IN /\ \A k \in 1 .. cursor - 1 :
            LET device == devicesTable[k]
            IN device.power > maxPower =>
                 /\ Occupied(slots, device.id) = {}
                 /\ \E n \in 1 .. Len(errors) :
                      /\ errors[n] = Error(NoMoreSpace, device)
                      /\ ErrorsFor(device.name) = {n}
       /\ (Done /\ first.made) =>
            LET before == Slots(first.hoursTable)
            IN \A i \in 1 .. Len(devices) :
                 /\ Occupied(slots, devices[i].id) = Occupied(before, devices[i].id)
                 /\ {errors[n] : n \in ErrorsFor(devices[i].name)}
                      = {e \in Range(first.errors) : e.name = devices[i].name}

\* The first engine turned the device ranked first away for its power and placed
\* a device ranked after it; the second engine ran without the device turned away.
PlacedWithAndWithoutOverpowered ==
  /\ Done
  /\ first.made
  /\ first.errors # <<>>
  /\ first.errors[1].message = NoMoreSpace
  /\ \E i \in 1 .. Len(first.devices) :
       /\ first.devices[i].name = first.errors[1].name
       /\ first.devices[i].power > maxPower
       /\ first.devices[i] \notin Range(devices)
  /\ \E i \in 1 .. Len(devices) : Occupied(Slots(hoursTable), devices[i].id) # {}

\* the per-device costs, 0 for a device without one, in the order of the input
DeviceCosts ==
  toArray([i \in 1 .. Len(devices) |->
             IF devices[i].id \in DOMAIN deviceMoneySpent
             THEN deviceMoneySpent[devices[i].id] ELSE 0])

(***************************************************************************)
(* C13: in every state the total cost is the sum of the per-device costs;  *)
(* both are zero, with no per-device cost at all, until a device is        *)
(* placed, and only placed devices have a per-device cost.                 *)
(***************************************************************************)
TotalIsSumOfDeviceCosts ==
  /\ totalMoneySpent = sum(DeviceCosts, 1, Len(devices))
  /\ DOMAIN deviceMoneySpent \subseteq {devices[i].id : i \in 1 .. Len(devices)}
  /\ TableBuilt =>
       \A i \in 1 .. Len(devices) :
         devices[i].id \in DOMAIN deviceMoneySpent
           <=> Occupied(Slots(hoursTable), devices[i].id) # {}
  /\ ~TableBuilt => totalMoneySpent = 0 /\ DOMAIN deviceMoneySpent = {}

\* Two devices are placed at different costs and a price is paid for each.
TwoDevicesCharged ==
  /\ Done
  /\ Len(devices) = 2
  /\ DOMAIN deviceMoneySpent = {1, 2}
  /\ 0 < deviceMoneySpent[1]
  /\ deviceMoneySpent[1] < deviceMoneySpent[2]
  /\ totalMoneySpent = deviceMoneySpent[1] + deviceMoneySpent[2]

(***************************************************************************)
(* C14: in the structure getSchedule returns, `devices` has a key for      *)
(* every input device id, placed or not, mapped to its name; `schedule`    *)
(* has exactly the keys 0..23; a device id is in some hour's list of       *)
(* `schedule` if and only if it is a key of `consumedEnergy.devices`, and  *)
(* that if and only if no diagnostic was recorded for the device.          *)
(***************************************************************************)
ScheduleOutputKeys ==
  call.op = "getSchedule" =>
    LET ret == call.ret
        inSchedule(id) == \E h \in DOMAIN ret.schedule : id \in Range(ret.schedule[h])
    IN /\ DOMAIN ret.devices = {devices[i].id : i \in 1 .. Len(devices)}
       /\ \A i \in 1 .. Len(devices) : ret.devices[devices[i].id] = devices[i].name
       /\ DOMAIN ret.schedule = Hours
       /\ DOMAIN ret.consumedEnergy.devices \subseteq DOMAIN ret.devices
       /\ \A h \in Hours : Range(ret.schedule[h]) \subseteq DOMAIN ret.devices
       /\ \A i \in 1 .. Len(devices) :
            /\ inSchedule(devices[i].id)
                 <=> devices[i].id \in DOMAIN ret.consumedEnergy.devices
            /\ inSchedule(devices[i].id) <=> ErrorsFor(devices[i].name) = {}

\* getSchedule is called on an engine that placed one device and turned the
\* other away
ScheduleOfPlacedAndTurnedAway ==
  /\ call.op = "getSchedule"
  /\ Len(devices) = 2
  /\ Len(errors) = 1
  /\ Cardinality(DOMAIN call.ret.consumedEnergy.devices) = 1
  /\ \E h \in Hours : call.ret.schedule[h] # <<>>

(***************************************************************************)
(* C15: once built, and whatever its order (by price after construction    *)
(* and during the search, by hour after a commit), hoursTable holds        *)
(* exactly 24 slots whose hours are pairwise distinct and are exactly      *)
(* 0..23, so getHourItem(h) is the one slot of hour h for every h.         *)
(***************************************************************************)
EveryHourOnce ==
  TableBuilt =>
    /\ Len(hoursTable) = HoursPerDay
    /\ {hoursTable[k].hour : k \in 1 .. Len(hoursTable)} = Hours
    /\ \A h \in Hours :
         /\ Cardinality({k \in 1 .. Len(hoursTable) : hoursTable[k].hour = h}) = 1
         /\ getHourItem(h).hour = h
         /\ \A k \in 1 .. Len(hoursTable) :
              hoursTable[k].hour = h => getHourItem(h) = hoursTable[k]

\* a device is being searched for in a table that is ordered by price, with
\* slots away from the index of their hour
SearchedOutOfHourOrder ==
  /\ Ranked
  /\ cursor <= Len(devicesTable)
  /\ \E k \in 1 .. Len(hoursTable) : hoursTable[k].hour # k - 1

(***************************************************************************)
(* C16: two engines constructed from the same input (the same devices in   *)
(* the same order, the same rates, the same maxPower) end with the same    *)
(* schedule, the same total and per-device costs and the same list of      *)
(* diagnostics; the first construction leaves the input as it was, so the  *)
(* second one is given the same data.                                      *)
(***************************************************************************)
SameInputSameResult ==
  /\ devices = first.devices
  /\ (first.made /\ Done) =>
       /\ hoursTable = first.hoursTable
       /\ totalMoneySpent = first.totalMoneySpent
       /\ deviceMoneySpent = first.deviceMoneySpent
       /\ errors = first.errors

\* the second engine has finished on an input that is ranked in another order
\* than it is listed in, with a device placed and a device turned away
SecondEngineDone ==
  /\ first.made
  /\ Done
  /\ devicesTable # devices
  /\ DOMAIN deviceMoneySpent # {}
  /\ errors # <<>>

(***************************************************************************)
(* C17: a device of duration d in 1..24 is placed, at the moment it is     *)
(* handled, if and only if there is a start hour s in 0..23 such that      *)
(* every hour s..s+d-1 (modulo 24) matches the device's mode, if it has    *)
(* one, and has remaining power >= the device's power.  Price plays no     *)
(* part, so hours that no rate covers (price 999) remain usable; and       *)
(* neither of the two early rejections turns away a device that has such   *)
(* a window.                                                               *)
(***************************************************************************)
PlacedIffWindow ==
  [][(/\ pc = "createSchedule"
      /\ cursor <= Len(devicesTable)
      /\ cursor' = cursor + 1
      /\ devicesTable[cursor].duration \in 1 .. HoursPerDay)
     => \A device \in {devicesTable[cursor]}, slots \in {Slots(hoursTable)} :
          \A window \in {\E s \in Hours : FeasibleAt(slots, device, s)} :
            /\ (errors' = errors) <=> window
            /\ (Occupied(Slots(hoursTable'), device.id) # {}) <=> window
            /\ (device.id \in DOMAIN deviceMoneySpent') <=> window]_vars

\* with no rate at all, so that every hour has the price 999, one device has
\* been placed and another, with as many candidate hours as it needs but no
\* window, has been turned away
PlacedOnHoursWithoutRate ==
  /\ Done
  /\ rates = <<>>
  /\ \E h \in Hours : getHourItem(h).workers_id # <<>> /\ getHourItem(h).price = NoRatePrice
  /\ \E n \in 1 .. Len(errors) : errors[n].message = NotEnoughContinuousHours

(***************************************************************************)
(* C18: handling a device that ends in one of the three diagnostics leaves *)
(* the table and the accumulators as they were: every slot's remaining     *)
(* power, occupant lists and price, the total cost and every per-device    *)
(* cost are the same after the step as before it; only the list of         *)
(* diagnostics grows, by exactly one message.                              *)
(***************************************************************************)
FailureChangesOnlyErrors ==
  [][errors' # errors
     => /\ Ranked
        /\ cursor <= Len(devicesTable)
        /\ \E message \in Diagnostics :
             errors' = Append(errors, Error(message, devicesTable[cursor]))
        /\ hoursTable' = hoursTable
        /\ totalMoneySpent' = totalMoneySpent
        /\ deviceMoneySpent' = deviceMoneySpent
        /\ DOMAIN deviceMoneySpent' = DOMAIN deviceMoneySpent]_vars

\* the device handled last was turned away from a table that holds an earlier
\* placement
TurnedAwayFromOccupiedTable ==
  /\ Ranked
  /\ cursor > 2
  /\ ErrorsFor(devicesTable[cursor - 1].name) # {}
  /\ \E h \in Hours : getHourItem(h).workers_id # <<>>
  /\ totalMoneySpent > 0

(***************************************************************************)
(* C19: across every step of the run the remaining power of each slot      *)
(* never increases and the occupant lists of each slot only grow at the    *)
(* end; so the hours of a committed device never change afterwards, even   *)
(* when a device ranked later finds no window that another placement of    *)
(* the earlier one would have left free.                                   *)
(***************************************************************************)
CommittedHoursKept ==
  [][TableBuilt
     => \A before \in {Slots(hoursTable)}, after \in {Slots(hoursTable')} :
           /\ \A h \in Hours :
                /\ after[h + 1].power <= before[h + 1].power
                /\ Len(after[h + 1].workers_id) >= Len(before[h + 1].workers_id)
                /\ SubSeq(after[h + 1].workers_id, 1, Len(before[h + 1].workers_id))
                     = before[h + 1].workers_id
                /\ Len(after[h + 1].workers) >= Len(before[h + 1].workers)
                /\ SubSeq(after[h + 1].workers, 1, Len(before[h + 1].workers))
                     = before[h + 1].workers
           /\ \A id \in Ids :
                Occupied(before, id) # {} => Occupied(after, id) = Occupied(before, id)]_vars

\* the run has ended with a device placed and a later one turned away for want
\* of a window, although the empty table had disjoint windows for the two
TurnedAwayForAnEarlierChoice ==
  /\ Done
  /\ \E a, b \in Range(devicesTable) :
       /\ Rank(a.id) < Rank(b.id)
       /\ Occupied(Slots(hoursTable), a.id) # {}
       /\ \E n \in ErrorsFor(b.name) : errors[n].message = NotEnoughContinuousHours
       /\ a.power <= maxPower
       /\ b.power <= maxPower
       /\ \E s, t \in Hours :
            /\ Window(s, a.duration) \cap Window(t, b.duration) = {}
            /\ \A h \in Window(s, a.duration) : ModeAllows(a, h)
            /\ \A h \in Window(t, b.duration) : ModeAllows(b, h)

\* the cost, scaled by 1000, of the hours a device occupies
OccupiedCost(slots, id) ==
  LET hours == Occupied(slots, id)
      spent == toArray([n \in 1 .. HoursPerDay |->
                          IF n - 1 \in hours
                          THEN slots[n].price * DeviceOf(id).power ELSE 0])
  IN sum(spent, 1, HoursPerDay)

(***************************************************************************)
(* C20: the cost of every placed device is the sum, over the hours of its  *)
(* committed window, of price[hour] * power (in thousandths), and it is    *)
(* the totalPrice the window search computed for the chosen start hour:    *)
(* what is charged at the commit is what was minimised.                    *)
(***************************************************************************)
ChargedWhatWasMinimised ==
  [][/\ \A after \in {Slots(hoursTable')} :
          \A id \in DOMAIN deviceMoneySpent' :
            deviceMoneySpent'[id] = OccupiedCost(after, id)
     /\ Commits =>
          \A device \in {devicesTable[cursor]}, slots \in {Slots(hoursTable)} :
            \A chosen \in {Head(getReallyAvailableHours(getPotentialHours(device), device))} :
              /\ chosen.hour = startHours'[device.id]
              /\ chosen.totalPrice = WindowCost(slots, device, chosen.hour)
              /\ deviceMoneySpent'[device.id] = chosen.totalPrice
              /\ totalMoneySpent' = totalMoneySpent + chosen.totalPrice]_vars

\* a device has been charged for a window over hours of different prices
ChargedOverTwoPrices ==
  /\ Ranked
  /\ cursor > 1
  /\ \E id \in DOMAIN deviceMoneySpent :
       /\ deviceMoneySpent[id] > 0
       /\ \E h, g \in Occupied(Slots(hoursTable), id) :
            getHourItem(h).price # getHourItem(g).price

\* the sum of the powers of the devices of a list of ids
PowerOf(ids) ==
  LET powers == toArray([j \in 1 .. Len(ids) |-> DeviceOf(ids[j]).power])
  IN IF Len(ids) = 0 THEN 0 ELSE sum(powers, 1, Len(ids))

(***************************************************************************)
(* C21: in every state of the run and for every hour, the remaining power  *)
(* of the slot is maxPower minus the sum of the powers of the devices in   *)
(* its workers_id list, and its workers and workers_id lists have the same *)
(* length and list the same devices in the same order.                     *)
(***************************************************************************)
RemainingPowerAccountsForOccupants ==
  \A k \in 1 .. Len(hoursTable) :
    \A slot \in {hoursTable[k]} :
      /\ slot.power = maxPower - PowerOf(slot.workers_id)
      /\ Len(slot.workers) = Len(slot.workers_id)
      /\ \A j \in 1 .. Len(slot.workers_id) :
           slot.workers[j] = DeviceOf(slot.workers_id[j]).name

\* a slot holds two devices and has no power left
SlotSharedByTwo ==
  \E k \in 1 .. Len(hoursTable) :
    /\ Len(hoursTable[k].workers_id) = 2
    /\ hoursTable[k].workers_id[1] # hoursTable[k].workers_id[2]
    /\ hoursTable[k].power = 0

(***************************************************************************)
(* C22: in the single-pass variant createSchedule commits a device of      *)
(* duration d in 1..24 only to the hours firstHour..firstHour+d-1 (modulo  *)
(* 24, every index within 0..23), every one of which matches the device's  *)
(* mode, if it has one, and had remaining power >= the device's power just *)
(* before the commit; so no slot's remaining power becomes negative.       *)
(***************************************************************************)
SinglePassCommitsFeasibleRun ==
  [][(/\ Ranked
      /\ cursor <= Len(devicesTable)
      /\ devicesTable[cursor].duration \in 1 .. HoursPerDay
      /\ hoursTable' # hoursTable)
     => \A device \in {devicesTable[cursor]}, before \in {Slots(hoursTable)},
           after \in {Slots(hoursTable')} :
          /\ pc' # "thrown"
          /\ \A h \in Hours : after[h + 1].power >= 0
          /\ Occupied(after, device.id) # {}
               => /\ device.id \in DOMAIN startHours'
                  /\ Occupied(after, device.id)
                       = Window(startHours'[device.id], device.duration)
                  /\ FeasibleAt(before, device, startHours'[device.id])]_vars

====
